---- MODULE Spec2Model ----
(***************************************************************************)
(* Model of the live audio capture component (AudioRecorder) of the        *)
(* jury-selection frontend: React state, refs, the browser objects the     *)
(* component creates (WebSockets, interval and timeout timers, media       *)
(* streams, audio contexts, script processors) and its event handlers.     *)
(* Execution is single-threaded: every handler runs to completion, so      *)
(* every handler is one action. connectionStatus and audioLevel are        *)
(* written by the handlers and read only by the status display; they are   *)
(* not part of the state.                                                  *)
(* Four specifications share the handlers: Spec (the recorder and its      *)
(* audio path, the transcription service silent), SpecLive (Spec with the  *)
(* callbacks of due timers scheduled fairly), SpecTranscript (the          *)
(* transcript path with the parent that collects the fragments) and        *)
(* SpecEndToEnd (one recording with time in sample periods). SpecUnmount   *)
(* is Spec with the removal of the component from the page. SpecCodec      *)
(* applies the module-level functions of the component (resample,          *)
(* encodeWAV and the frames built for the audio socket) to bounded inputs. *)
(***************************************************************************)
EXTENDS Integers, Sequences, FiniteSets, TLC

\* ------------------------------------------------------------------ bounds
MaxStarts == 2             \* start requests (clicks on Start) in a behaviour
MaxSamples == 2            \* sample arrays delivered by capture callbacks
MaxDuration == 2           \* cap of the elapsed-seconds counter
MaxTranscriptSockets == 3  \* transcript WebSockets ever constructed
MaxMessages == 3           \* messages received on the transcript sockets
Seconds == 2               \* length of the timed scenario, in flush periods
MaxLen == 3                \* samples in an array passed to a function
MaxArrays == 2             \* arrays in a buffer passed to sendBufferedAudio
FrameSize == 2             \* samples in each array of such a buffer

Starts == 1..MaxStarts

\* ------------------------------------------------------------------- state
VARIABLES
    isRecording,            \* useState(false)
    isPaused,               \* useState(false)
    duration,               \* useState(0)
    audioContextRef,        \* 0 = null, else the start that created it
    processorRef,
    sourceRef,
    audioWebSocketRef,
    transcriptWebSocketRef, \* 0 = null, else an index of tws
    streamRef,
    durationIntervalRef,    \* "null" | "live" (id of an active timer) | "stale"
    levelIntervalRef,
    bufferIntervalRef,
    isPausedRef,
    audioBufferRef,         \* sequence of sample arrays (their ids)
    start,                  \* per start request: how far startRecording got,
                            \* and "stopped" once stopRecording ran after it
    closureRec,             \* per start request: isRecording of the render clicked
    aws,                    \* audio WebSockets, one per start that got the device
    sent,                   \* frames sent on each audio WebSocket, in order
    tws,                    \* transcript WebSockets, in construction order
    reconnectTimers,        \* pending setTimeout(connectTranscriptWebSocket)
    stream,                 \* media streams: "none" | "live" | "stopped"
    ctx,                    \* audio contexts: "none" | "running" | "closed"
    proc,                   \* script processors
    flushTimers,            \* active intervals running sendBufferedAudio
    durationTimers,         \* active intervals running setDuration(d => d + 1)
    levelTimers,            \* active intervals of the level meter
    errors,                 \* onError: how often each message was passed
    liveSegments,           \* the parent's useState([]): fragments for the view
    \* history, read only by the properties
    delivered,              \* per delivered sample array: session state then
    failedFlush,            \* samples buffered at a flush that could not send
    stopSteps,              \* steps of the latest stopRecording, in code order
    received,               \* messages received on the transcript sockets
    tickedInPause,          \* a flush tick has run since the pause began
    drainedBy,              \* per transmitted sample array: the flush that sent it
    \* time, advanced only by the timed scenario (SpecEndToEnd)
    clock,                  \* phase of the capture callbacks, now, flush ticks
    \* one call of a module-level function (SpecCodec)
    call,                   \* the function, its arguments and what it returned
    \* the component on the page (SpecUnmount)
    mounted                 \* the component has not been unmounted

refs == <<audioContextRef, processorRef, sourceRef, audioWebSocketRef,
          transcriptWebSocketRef, streamRef, durationIntervalRef,
          levelIntervalRef, bufferIntervalRef, isPausedRef, audioBufferRef>>
reactState == <<isRecording, isPaused, duration>>
browser == <<start, closureRec, aws, sent, tws, reconnectTimers, stream, ctx,
             proc, flushTimers, durationTimers, levelTimers>>
parent == <<liveSegments>>
history == <<delivered, failedFlush, stopSteps, received, tickedInPause,
             drainedBy>>
vars == <<reactState, refs, browser, errors, parent, history, clock, call,
          mounted>>

\* --------------------------------------------------------------- constants
MicErrorSameText == "Failed to connect to audio server"

\* The two messages the component passes to onError.
MicError == "Failed to access microphone. Please check permissions."
AudioServerError == "Failed to connect to audio server"

EndFrame == [type |-> "end", samples |-> <<>>]
WavFrame(buffers) == [type |-> "wav", samples |-> buffers]

NewSocket == [rs |-> "CONNECTING", opened |-> FALSE]
NoSocket == [rs |-> "NONE", opened |-> FALSE]

\* -------------------------------------------------------------------- Init
\* Time as the timed scenario measures it, in sample periods of the capture
\* device; it stands still in Spec, which is untimed.
NoClock == [phase |-> 0, now |-> 0, flushTicks |-> 0]

\* The recorder and its parent after construction.
Constructed ==
    /\ isRecording = FALSE
    /\ isPaused = FALSE
    /\ duration = 0
    /\ audioContextRef = 0
    /\ processorRef = 0
    /\ sourceRef = 0
    /\ audioWebSocketRef = 0
    /\ transcriptWebSocketRef = 0
    /\ streamRef = 0
    /\ durationIntervalRef = "null"
    /\ levelIntervalRef = "null"
    /\ bufferIntervalRef = "null"
    /\ isPausedRef = FALSE
    /\ audioBufferRef = <<>>
    /\ start = [k \in Starts |-> "none"]
    /\ closureRec = [k \in Starts |-> FALSE]
    /\ aws = [k \in Starts |-> NoSocket]
    /\ sent = [k \in Starts |-> <<>>]
    /\ tws = <<>>
    /\ reconnectTimers = {}
    /\ stream = [k \in Starts |-> "none"]
    /\ ctx = [k \in Starts |-> "none"]
    /\ proc = [k \in Starts |-> "none"]
    /\ flushTimers = 0
    /\ durationTimers = 0
    /\ levelTimers = 0
    /\ errors = [m \in {MicError, AudioServerError} |-> 0]
    /\ delivered = <<>>
    /\ failedFlush = {}
    /\ stopSteps = <<>>
    /\ liveSegments = <<>>
    /\ received = 0
    /\ tickedInPause = FALSE
    /\ drainedBy = {}

\* No call of a module-level function is followed outside SpecCodec.
NoCall == [fn |-> "none", samples |-> <<>>, rates |-> <<>>,
           returned |-> FALSE, result |-> <<>>]

Init == Constructed /\ clock = NoClock /\ call = NoCall /\ mounted = TRUE

\* ---------------------------------------------------------------- helpers
\* Interval timers with the same callback are interchangeable, so each kind
\* is a count of active timers and the ref says whether the id it holds is
\* one of them ("live") or of a timer already cleared ("stale").
\* clearInterval(ref.current) stops the timer the ref names, if still active.
Cleared(ref) == IF ref = "live" THEN "stale" ELSE ref
ClearCount(ref, n) == IF ref = "live" THEN n - 1 ELSE n

\* ------------------------------------------------------- startRecording
\* The Start control is rendered while !isRecording; a click runs the
\* startRecording of that render, which closes over that render's
\* isRecording and connectTranscriptWebSocket, and awaits getUserMedia.
StartClick ==
    /\ ~isRecording
    /\ \E k \in Starts :
        /\ start[k] = "none"
        /\ \A j \in Starts : j < k => start[j] # "none"
        /\ start' = [start EXCEPT ![k] = "pending"]
        /\ closureRec' = [closureRec EXCEPT ![k] = isRecording]
    /\ UNCHANGED <<reactState, refs, aws, sent, tws, reconnectTimers, stream,
                   ctx, proc, flushTimers, durationTimers, levelTimers,
                   errors, delivered, failedFlush, stopSteps,
                   liveSegments, received, tickedInPause,
                   drainedBy>>

\* connectTranscriptWebSocket as closed over by start request k (or by the
\* socket a reconnect replaces): a new socket whose onclose reads the
\* closure's isRecording; the ref is overwritten.
\* sess, from, live, closedRec and resched are history: the start request
\* the socket descends from, the socket whose closure it replaces (0 when
\* startRecording opened it), whether that recording was in progress when it
\* was opened, whether it closed while recording, and whether its onclose
\* scheduled a reconnect.
TranscriptSocket(k, rec, from) ==
    [rs |-> "CONNECTING", sess |-> k, rec |-> rec, from |-> from,
     live |-> isRecording /\ start[k] = "granted",
     closedRec |-> FALSE, resched |-> FALSE]

\* getUserMedia rejected: the catch block of startRecording.
GetUserMediaReject(k) ==
    /\ start[k] = "pending"
    /\ start' = [start EXCEPT ![k] = "denied"]
    /\ errors' = [errors EXCEPT ![MicError] = @ + 1]
    /\ UNCHANGED <<reactState, refs, closureRec, aws, sent, tws,
                   reconnectTimers, stream, ctx, proc, flushTimers,
                   durationTimers, levelTimers, delivered, failedFlush,
                   stopSteps,
                   liveSegments, received, tickedInPause,
                   drainedBy>>

\* getUserMedia resolved: the rest of the try block of startRecording.
GetUserMediaResolve(k) ==
    /\ start[k] = "pending"
    /\ Len(tws) < MaxTranscriptSockets
    /\ start' = [start EXCEPT ![k] = "granted"]
    /\ streamRef' = k
    /\ stream' = [stream EXCEPT ![k] = "live"]
    /\ audioContextRef' = k
    /\ ctx' = [ctx EXCEPT ![k] = "running"]
    /\ sourceRef' = k
    /\ aws' = [aws EXCEPT ![k] = NewSocket]
    /\ audioWebSocketRef' = k
    /\ tws' = Append(tws, TranscriptSocket(k, closureRec[k], 0))
    /\ transcriptWebSocketRef' = Len(tws) + 1
    /\ UNCHANGED <<isRecording, isPaused, duration, processorRef,
                   durationIntervalRef, levelIntervalRef, bufferIntervalRef,
                   isPausedRef, audioBufferRef, closureRec, sent,
                   reconnectTimers, proc, flushTimers, durationTimers,
                   levelTimers, errors, delivered, failedFlush, stopSteps,
                   liveSegments, received, tickedInPause,
                   drainedBy>>

\* ------------------------------------------------------------ the parent
\* The parent's isRecording is set by handleRecordingStart and
\* handleRecordingStop, which the recorder calls right after setting its own
\* isRecording, so the two agree and the model keeps one.
\* handleRecordingStart: setLiveSegments([]).
HandleRecordingStart == <<>>

\* handleTranscriptUpdate: setLiveSegments(prev => [...prev, segment]).
HandleTranscriptUpdate(segment) == Append(liveSegments, segment)

\* What the parent renders as <LiveTranscript segments=...>: the component is
\* rendered while recording with at least one fragment, and maps the
\* sequence in the order given.
LiveViewShown == isRecording /\ liveSegments # <<>>
LiveView == liveSegments

\* ------------------------------------------------ audio WebSocket events
\* ws.onopen of the audio socket of start k. The processor is created on
\* audioContextRef.current and connected to the source of this closure; when
\* a later start has replaced the context, source.connect(processor) joins
\* nodes of two contexts and throws, which ends the handler there.
OnOpenThrows(k) == audioContextRef # k

AudioOpen(k) ==
    /\ aws[k].rs = "CONNECTING"
    /\ aws' = [aws EXCEPT ![k].rs = "OPEN", ![k].opened = TRUE]
    /\ processorRef' = k
    /\ IF OnOpenThrows(k)
       THEN /\ proc' = [proc EXCEPT ![k] = "unconnected"]
            /\ UNCHANGED <<isRecording, bufferIntervalRef, flushTimers,
                           durationIntervalRef, durationTimers,
                           levelIntervalRef, levelTimers, liveSegments>>
       ELSE /\ proc' = [proc EXCEPT ![k] = "connected"]
            /\ bufferIntervalRef' = "live"
            /\ flushTimers' = flushTimers + 1
            /\ isRecording' = TRUE
            /\ liveSegments' = HandleRecordingStart
            /\ durationIntervalRef' = "live"
            /\ durationTimers' = durationTimers + 1
            /\ levelIntervalRef' = "live"
            /\ levelTimers' = levelTimers + 1
    /\ UNCHANGED <<isPaused, duration, audioContextRef, sourceRef,
                   audioWebSocketRef, transcriptWebSocketRef, streamRef,
                   isPausedRef, audioBufferRef, start, closureRec, sent, tws,
                   reconnectTimers, stream, ctx, errors, delivered,
                   failedFlush, stopSteps, received, tickedInPause,
                   drainedBy>>

\* A transport error on audio socket k: the socket is closed and ws.onerror
\* runs. (ws.onclose, which follows, only sets the status display.)
AudioError(k) ==
    /\ aws[k].rs \in {"CONNECTING", "OPEN"}
    /\ aws' = [aws EXCEPT ![k].rs = "CLOSED"]
    /\ errors' = [errors EXCEPT ![AudioServerError] = @ + 1]
    /\ UNCHANGED <<isRecording, isPaused, duration, refs, start, closureRec,
                   sent, tws, reconnectTimers, stream, ctx, proc, flushTimers,
                   durationTimers, levelTimers, delivered, failedFlush,
                   stopSteps,
                   liveSegments, received, tickedInPause,
                   drainedBy>>

\* Audio socket k closes without an error: the server closes an open
\* socket, or the closing handshake that close() began completes. ws.onclose
\* only sets the status display.
AudioClose(k) ==
    /\ aws[k].rs \in {"OPEN", "CLOSING"}
    /\ aws' = [aws EXCEPT ![k].rs = "CLOSED"]
    /\ UNCHANGED <<isRecording, isPaused, duration, refs, start, closureRec,
                   sent, tws, reconnectTimers, stream, ctx, proc, flushTimers,
                   durationTimers, levelTimers, errors, delivered, failedFlush,
                   stopSteps,
                   liveSegments, received, tickedInPause,
                   drainedBy>>

\* ------------------------------------------------------- capture callback
Range(seq) == {seq[i] : i \in 1..Len(seq)}

AcceptsAlways == TRUE

\* processor.onaudioprocess: the early return on the pause flag.
Accepts == ~isPausedRef

\* The script processor of start k delivers one sample array. It runs while
\* it is connected and its context is running.
Deliver(k) ==
    /\ proc[k] = "connected"
    /\ ctx[k] = "running"
    /\ audioBufferRef' = IF Accepts
                         THEN Append(audioBufferRef, Len(delivered) + 1)
                         ELSE audioBufferRef
    /\ delivered' = Append(delivered, [paused |-> isPaused,
                                       rec |-> isRecording,
                                       kept |-> Accepts])
    /\ UNCHANGED <<reactState, audioContextRef, processorRef, sourceRef,
                   audioWebSocketRef, transcriptWebSocketRef, streamRef,
                   durationIntervalRef, levelIntervalRef, bufferIntervalRef,
                   isPausedRef, browser, errors, failedFlush, stopSteps,
                   liveSegments, received, tickedInPause,
                   drainedBy>>

\* In Spec the number of deliveries in a behaviour is bounded.
Capture(k) == Len(delivered) < MaxSamples /\ Deliver(k)

\* ------------------------------------------------------ sendBufferedAudio
CanSendUnchecked == audioWebSocketRef # 0

\* The guard of sendBufferedAudio: the socket the ref names is open.
CanSend == audioWebSocketRef # 0 /\ aws[audioWebSocketRef].rs = "OPEN"

\* sendBufferedAudio returns early, leaving the buffer as it is.
FlushReturnsEarly == ~CanSend \/ audioBufferRef = <<>>

BufferKeptAfterFlush == audioBufferRef

\* The buffer after sendBufferedAudio.
BufferAfterFlush == IF FlushReturnsEarly THEN audioBufferRef ELSE <<>>

SentAfterFlushFront ==
    IF FlushReturnsEarly
    THEN sent
    ELSE [sent EXCEPT ![audioWebSocketRef] = <<WavFrame(audioBufferRef)>> \o @]

\* The frames sent on the audio sockets after sendBufferedAudio: the whole
\* buffer as one chunk on the socket the ref names.
SentAfterFlush ==
    IF FlushReturnsEarly
    THEN sent
    ELSE [sent EXCEPT ![audioWebSocketRef] = Append(@, WavFrame(audioBufferRef))]

\* The sample arrays a flush takes from the buffer into a chunk, with the
\* flush that took them (history): a periodic tick, a tick during a pause or
\* the final flush of stopRecording.
DrainedAfterFlush(by) ==
    IF FlushReturnsEarly
    THEN drainedBy
    ELSE drainedBy \cup {<<id, by>> : id \in Range(audioBufferRef)}

\* Samples a flush found buffered and could not send (history).
FailedAfterFlush ==
    IF CanSend THEN failedFlush ELSE failedFlush \cup Range(audioBufferRef)

\* ------------------------------------------------------ transcript socket
ShouldReconnectNow(i) == isRecording

\* ws.onclose of transcript socket i: `if (isRecording)` reads the value the
\* closure of connectTranscriptWebSocket captured, not the current state.
ShouldReconnect(i) == tws[i].rec

TranscriptOpen(i) ==
    /\ i \in 1..Len(tws)
    /\ tws[i].rs = "CONNECTING"
    /\ tws' = [tws EXCEPT ![i].rs = "OPEN"]
    /\ UNCHANGED <<reactState, refs, start, closureRec, aws, sent,
                   reconnectTimers, stream, ctx, proc, flushTimers,
                   durationTimers, levelTimers, errors, delivered, failedFlush,
                   stopSteps,
                   liveSegments, received, tickedInPause,
                   drainedBy>>

TranscriptCloseStopsFlush(i) ==
    /\ i \in 1..Len(tws)
    /\ tws[i].rs \in {"CONNECTING", "OPEN", "CLOSING"}
    /\ tws' = [tws EXCEPT ![i].rs = "CLOSED",
                          ![i].closedRec = isRecording /\ tws[i].rs # "CLOSING",
                          ![i].resched = tws[i].rec]
    /\ reconnectTimers' = IF tws[i].rec
                          THEN reconnectTimers \cup {i}
                          ELSE reconnectTimers
    /\ flushTimers' = ClearCount(bufferIntervalRef, flushTimers)
    /\ bufferIntervalRef' = Cleared(bufferIntervalRef)
    /\ UNCHANGED <<reactState, audioContextRef, processorRef, sourceRef,
                   audioWebSocketRef, transcriptWebSocketRef, streamRef,
                   durationIntervalRef, levelIntervalRef, isPausedRef,
                   audioBufferRef, start, closureRec, aws, sent, stream, ctx,
                   proc, durationTimers, levelTimers, errors, delivered,
                   failedFlush, stopSteps, liveSegments, received,
                   tickedInPause, drainedBy>>

\* The close event of transcript socket i: after close(), a close by the
\* server, or a transport error (ws.onerror only logs).
TranscriptClose(i) ==
    /\ i \in 1..Len(tws)
    /\ tws[i].rs \in {"CONNECTING", "OPEN", "CLOSING"}
    /\ tws' = [tws EXCEPT ![i].rs = "CLOSED",
                          ![i].closedRec = isRecording /\ tws[i].rs # "CLOSING",
                          ![i].resched = ShouldReconnect(i)]
    /\ reconnectTimers' = IF ShouldReconnect(i)
                          THEN reconnectTimers \cup {i}
                          ELSE reconnectTimers
    /\ UNCHANGED <<reactState, refs, start, closureRec, aws, sent, stream,
                   ctx, proc, flushTimers, durationTimers, levelTimers, errors,
                   delivered, failedFlush, stopSteps,
                   liveSegments, received, tickedInPause,
                   drainedBy>>

\* Fragments the transcription service sends: an id and a start time.
Fragments == {[segment_id |-> 1, start_time |-> 5],
              [segment_id |-> 2, start_time |-> 1],
              [segment_id |-> 3, start_time |-> 3]}

\* Texts received on a transcript socket: the JSON text of an object with a
\* type and a data payload, or (wellFormed false) a text JSON.parse rejects,
\* here the text of such an object cut short.
WireMessages ==
    [wellFormed : BOOLEAN, type : {"transcript", "status"}, data : Fragments]

IsTranscriptAnyType(m) == m.wellFormed

\* ws.onmessage: JSON.parse throws on a malformed text and the catch block
\* logs; otherwise the type decides.
IsTranscript(m) == m.wellFormed /\ m.type = "transcript"

\* Transcript socket i receives m. Message events are delivered to an open
\* socket only.
TranscriptMessage(i, m) ==
    /\ i \in 1..Len(tws)
    /\ tws[i].rs = "OPEN"
    /\ received < MaxMessages
    /\ received' = received + 1
    /\ liveSegments' = IF IsTranscript(m)
                       THEN HandleTranscriptUpdate(m.data)
                       ELSE liveSegments
    /\ UNCHANGED <<reactState, refs, browser, errors, delivered, failedFlush,
                   stopSteps, tickedInPause,
                   drainedBy>>

\* ------------------------------------------------------------------ timers
TimerKinds == {"flush", "duration", "reconnect"}

\* The event loop runs the callback of a due timer: the flush interval
\* (sendBufferedAudio), the duration interval (setDuration(d => d + 1)) or a
\* reconnect timeout (connectTranscriptWebSocket of the closure that set it).
\* The level interval only sets audioLevel, which is not part of the model.
TimerFires(kind, i) ==
    /\ CASE kind = "flush" ->
            /\ i = 0
            /\ flushTimers > 0
            /\ audioBufferRef' = BufferAfterFlush
            /\ sent' = SentAfterFlush
            /\ failedFlush' = FailedAfterFlush
            /\ tickedInPause' = (tickedInPause \/ isPaused)
            /\ drainedBy' = DrainedAfterFlush(IF isPaused THEN "pausedTick"
                                              ELSE "tick")
            /\ UNCHANGED <<duration, tws, transcriptWebSocketRef,
                           reconnectTimers>>
         [] kind = "duration" ->
            /\ i = 0
            /\ durationTimers > 0
            /\ duration < MaxDuration
            /\ duration' = duration + 1
            /\ UNCHANGED <<audioBufferRef, sent, failedFlush, tws,
                           transcriptWebSocketRef, reconnectTimers,
                           tickedInPause, drainedBy>>
         [] kind = "reconnect" ->
            /\ i \in reconnectTimers
            /\ Len(tws) < MaxTranscriptSockets
            /\ reconnectTimers' = reconnectTimers \ {i}
            /\ tws' = Append(tws, TranscriptSocket(tws[i].sess, tws[i].rec, i))
            /\ transcriptWebSocketRef' = Len(tws) + 1
            /\ UNCHANGED <<duration, audioBufferRef, sent, failedFlush,
                           tickedInPause, drainedBy>>
    /\ UNCHANGED <<isRecording, isPaused, audioContextRef,
                   processorRef, sourceRef, audioWebSocketRef, streamRef,
                   durationIntervalRef, levelIntervalRef, bufferIntervalRef,
                   isPausedRef, start, closureRec, aws, stream, ctx, proc,
                   flushTimers, durationTimers, levelTimers, errors, delivered,
                   stopSteps, liveSegments, received>>

\* -------------------------------------------------------------- togglePause
\* The Pause/Resume control is rendered while isRecording.
TogglePause ==
    /\ isRecording
    /\ IF isPaused
       THEN /\ isPausedRef' = FALSE
            /\ durationIntervalRef' = "live"
            /\ durationTimers' = durationTimers + 1
       ELSE /\ isPausedRef' = TRUE
            /\ durationIntervalRef' = Cleared(durationIntervalRef)
            /\ durationTimers' = ClearCount(durationIntervalRef, durationTimers)
    /\ isPaused' = ~isPaused
    /\ tickedInPause' = FALSE
    /\ UNCHANGED drainedBy
    /\ UNCHANGED <<isRecording, duration, audioContextRef,
                   processorRef, sourceRef, audioWebSocketRef,
                   transcriptWebSocketRef, streamRef, levelIntervalRef,
                   bufferIntervalRef, audioBufferRef, start, closureRec, aws,
                   sent, tws, reconnectTimers, stream, ctx, proc, flushTimers,
                   levelTimers, errors, delivered, failedFlush, stopSteps,
                   liveSegments, received>>

\* ------------------------------------------------------------ stopRecording
AfterCloseCallKeeps(rs) == rs

\* WebSocket.close(): a socket that is connecting or open starts closing.
AfterCloseCall(rs) == IF rs \in {"CONNECTING", "OPEN"} THEN "CLOSING" ELSE rs

SentAfterStopEndFirst ==
    IF CanSend
    THEN [sent EXCEPT ![audioWebSocketRef] =
             Append(@, EndFrame)
             \o (IF audioBufferRef # <<>> THEN <<WavFrame(audioBufferRef)>>
                 ELSE <<>>)]
    ELSE sent

\* Frames on the audio sockets after stopRecording: the final flush, then
\* the end message when the socket the ref names is open.
SentAfterStop ==
    IF CanSend
    THEN [SentAfterFlush EXCEPT ![audioWebSocketRef] = Append(@, EndFrame)]
    ELSE SentAfterFlush

Opt(cond, step) == IF cond THEN <<step>> ELSE <<>>

\* The steps stopRecording performs, in the order of its statements.
StopSteps ==
    Opt(~FlushReturnsEarly, "finalChunk")
    \o Opt(processorRef # 0, "detachCapture")
    \o Opt(bufferIntervalRef # "null", "clearFlushTimer")
    \o <<"clearBuffer">>
    \o Opt(CanSend, "endMessage")
    \o Opt(audioWebSocketRef # 0, "closeAudio")
    \o Opt(transcriptWebSocketRef # 0, "closeTranscript")
    \o Opt(streamRef # 0, "releaseDevice")
    \o Opt(durationIntervalRef # "null" \/ levelIntervalRef # "null",
           "clearTimers")
    \o <<"reportStopped">>

\* The Stop control is rendered while isRecording.
StopRecording ==
    /\ isRecording
    /\ sent' = SentAfterStop
    /\ failedFlush' = FailedAfterFlush
    /\ proc' = IF processorRef # 0
               THEN [proc EXCEPT ![processorRef] = "disconnected"]
               ELSE proc
    /\ processorRef' = 0
    /\ sourceRef' = 0
    /\ flushTimers' = ClearCount(bufferIntervalRef, flushTimers)
    /\ bufferIntervalRef' = "null"
    /\ audioBufferRef' = <<>>
    /\ aws' = IF audioWebSocketRef # 0
              THEN [aws EXCEPT ![audioWebSocketRef].rs = AfterCloseCall(@)]
              ELSE aws
    /\ tws' = IF transcriptWebSocketRef # 0
              THEN [tws EXCEPT ![transcriptWebSocketRef].rs = AfterCloseCall(@)]
              ELSE tws
    /\ stream' = IF streamRef # 0
                 THEN [stream EXCEPT ![streamRef] = "stopped"]
                 ELSE stream
    /\ ctx' = IF audioContextRef # 0
              THEN [ctx EXCEPT ![audioContextRef] = "closed"]
              ELSE ctx
    /\ durationTimers' = ClearCount(durationIntervalRef, durationTimers)
    /\ durationIntervalRef' = Cleared(durationIntervalRef)
    /\ levelTimers' = ClearCount(levelIntervalRef, levelTimers)
    /\ levelIntervalRef' = Cleared(levelIntervalRef)
    /\ isRecording' = FALSE
    /\ isPaused' = FALSE
    /\ stopSteps' = StopSteps
    /\ tickedInPause' = FALSE
    /\ drainedBy' = DrainedAfterFlush("stop")
    /\ start' = [k \in Starts |->
                    IF start[k] = "granted" THEN "stopped" ELSE start[k]]
    /\ UNCHANGED <<duration, audioContextRef, audioWebSocketRef,
                   transcriptWebSocketRef, streamRef, isPausedRef,
                   closureRec, reconnectTimers, errors, delivered,
                   liveSegments, received>>

\* ----------------------------------------------------------- specifications
\* Spec: the recorder with its audio path, in an environment in which the
\* transcription service sends no message.
Next ==
    \/ StartClick /\ UNCHANGED <<clock, call, mounted>>
    \/ \E k \in Starts : GetUserMediaResolve(k) /\ UNCHANGED <<clock, call, mounted>>
    \/ \E k \in Starts : GetUserMediaReject(k) /\ UNCHANGED <<clock, call, mounted>>
    \/ \E k \in Starts : AudioOpen(k) /\ UNCHANGED <<clock, call, mounted>>
    \/ \E k \in Starts : AudioError(k) /\ UNCHANGED <<clock, call, mounted>>
    \/ \E k \in Starts : AudioClose(k) /\ UNCHANGED <<clock, call, mounted>>
    \/ \E k \in Starts : Capture(k) /\ UNCHANGED <<clock, call, mounted>>
    \/ \E i \in 1..MaxTranscriptSockets : TranscriptOpen(i) /\ UNCHANGED <<clock, call, mounted>>
    \/ \E i \in 1..MaxTranscriptSockets : TranscriptClose(i) /\ UNCHANGED <<clock, call, mounted>>
    \/ \E kind \in TimerKinds, i \in 0..MaxTranscriptSockets :
          TimerFires(kind, i) /\ UNCHANGED <<clock, call, mounted>>
    \/ TogglePause /\ UNCHANGED <<clock, call, mounted>>
    \/ StopRecording /\ UNCHANGED <<clock, call, mounted>>

Spec == Init /\ [][Next]_vars

\* SpecLive: Spec with the scheduling the browser guarantees. The callback of
\* a timer that is due runs; the user, getUserMedia, the capture device and
\* the servers behind the two sockets are under no obligation to act.
TimerCallback ==
    \E kind \in TimerKinds, i \in 0..MaxTranscriptSockets :
        TimerFires(kind, i) /\ UNCHANGED <<clock, call, mounted>>

SpecLive == Init /\ [][Next]_vars /\ WF_vars(TimerCallback)

\* ------------------------------------------------------------------ unmount
\* The isRecording the cleanup of the unmount effect reads. The effect has no
\* dependencies, so its cleanup is the one created by the first render and
\* closes over that render's isRecording, the initial useState(false).
UnmountSeesRecording == FALSE

\* React removes the component and runs the cleanup of the effect:
\* if (isRecording) stopRecording(). Timers, sockets, the audio graph and the
\* media stream belong to the browser and live on unless the cleanup ends
\* them; their callbacks still run and reach the refs through their
\* closures. What those callbacks pass to the state setters afterwards is
\* kept in the state variables, which nothing renders any more.
Unmount ==
    /\ mounted = TRUE
    /\ mounted' = FALSE
    /\ IF UnmountSeesRecording
       THEN StopRecording
       ELSE UNCHANGED <<reactState, refs, browser, errors, parent, history>>

\* SpecUnmount: Spec with the unmount; the controls of the component can be
\* used only while it is mounted.
NextUnmount ==
    \/ mounted /\ StartClick /\ UNCHANGED <<clock, call, mounted>>
    \/ \E k \in Starts : GetUserMediaResolve(k) /\ UNCHANGED <<clock, call, mounted>>
    \/ \E k \in Starts : GetUserMediaReject(k) /\ UNCHANGED <<clock, call, mounted>>
    \/ \E k \in Starts : AudioOpen(k) /\ UNCHANGED <<clock, call, mounted>>
    \/ \E k \in Starts : AudioError(k) /\ UNCHANGED <<clock, call, mounted>>
    \/ \E k \in Starts : AudioClose(k) /\ UNCHANGED <<clock, call, mounted>>
    \/ \E k \in Starts : Capture(k) /\ UNCHANGED <<clock, call, mounted>>
    \/ \E i \in 1..MaxTranscriptSockets : TranscriptOpen(i) /\ UNCHANGED <<clock, call, mounted>>
    \/ \E i \in 1..MaxTranscriptSockets : TranscriptClose(i) /\ UNCHANGED <<clock, call, mounted>>
    \/ \E kind \in TimerKinds, i \in 0..MaxTranscriptSockets :
          TimerFires(kind, i) /\ UNCHANGED <<clock, call, mounted>>
    \/ mounted /\ TogglePause /\ UNCHANGED <<clock, call, mounted>>
    \/ mounted /\ StopRecording /\ UNCHANGED <<clock, call, mounted>>
    \/ Unmount /\ UNCHANGED <<clock, call>>

SpecUnmount == Init /\ [][NextUnmount]_vars

\* SpecTranscript: the recorder, its parent and the transcription service
\* sending messages. The capture callback, the interval timers and the pause
\* control are left out: they neither read nor write what the transcript
\* path reads (the sockets, the refs to them, isRecording, liveSegments).
NextTranscript ==
    \/ StartClick /\ UNCHANGED <<clock, call, mounted>>
    \/ \E k \in Starts : GetUserMediaResolve(k) /\ UNCHANGED <<clock, call, mounted>>
    \/ \E k \in Starts : GetUserMediaReject(k) /\ UNCHANGED <<clock, call, mounted>>
    \/ \E k \in Starts : AudioOpen(k) /\ UNCHANGED <<clock, call, mounted>>
    \/ \E k \in Starts : AudioError(k) /\ UNCHANGED <<clock, call, mounted>>
    \/ \E k \in Starts : AudioClose(k) /\ UNCHANGED <<clock, call, mounted>>
    \/ \E i \in 1..MaxTranscriptSockets : TranscriptOpen(i) /\ UNCHANGED <<clock, call, mounted>>
    \/ \E i \in 1..MaxTranscriptSockets : TranscriptClose(i) /\ UNCHANGED <<clock, call, mounted>>
    \/ \E i \in 1..MaxTranscriptSockets, m \in WireMessages :
          TranscriptMessage(i, m) /\ UNCHANGED <<clock, call, mounted>>
    \/ StopRecording /\ UNCHANGED <<clock, call, mounted>>

SpecTranscript == Init /\ [][NextTranscript]_vars

\* ------------------------------------------------- the module-level functions
TARGET_SAMPLE_RATE == 16000

\* ------------------------------------------------- double-precision numbers
\* JavaScript numbers are IEEE 754 binary64. A double x >= 0 is kept as
\* [m, e] with value m * 2^e, where m is a natural of at most Precision + 1
\* bits held in two limbs <<high, low>>, m = high * Limb + low.
Precision == 53
LimbBits == 27
Limb == 2 ^ LimbBits

Big(n) == <<n \div Limb, n % Limb>>
Small(x) == x[1] * Limb + x[2]
Dbl(x) == <<2 * x[1] + (2 * x[2]) \div Limb, (2 * x[2]) % Limb>>
Inc(x) == IF x[2] + 1 = Limb THEN <<x[1] + 1, 0>> ELSE <<x[1], x[2] + 1>>
Geq(x, y) == x[1] > y[1] \/ (x[1] = y[1] /\ x[2] >= y[2])
Sub(x, y) ==
    IF x[2] >= y[2] THEN <<x[1] - y[1], x[2] - y[2]>>
    ELSE <<x[1] - y[1] - 1, x[2] + Limb - y[2]>>

\* floor(x / 2^n) and x * 2^n (the latter for products below Limb^2).
ShiftRight(x, n) ==
    IF n >= 2 * LimbBits THEN <<0, 0>>
    ELSE IF n >= LimbBits THEN <<0, x[1] \div 2 ^ (n - LimbBits)>>
    ELSE <<x[1] \div 2 ^ n,
           (x[1] % 2 ^ n) * 2 ^ (LimbBits - n) + x[2] \div 2 ^ n>>
ShiftLeft(x, n) ==
    IF n >= LimbBits THEN <<x[2] * 2 ^ (n - LimbBits), 0>>
    ELSE <<x[1] * 2 ^ n + x[2] \div 2 ^ (LimbBits - n),
           (x[2] % 2 ^ (LimbBits - n)) * 2 ^ n>>

\* Number of bits of a limb, and of a natural in two limbs.
LimbLength(n) == CHOOSE k \in 0..LimbBits : n < 2 ^ k /\ (k = 0 \/ n >= 2 ^ (k - 1))
BitLength(x) ==
    IF x[1] > 0 THEN LimbBits + LimbLength(x[1]) ELSE LimbLength(x[2])

FromInt(n) == [m |-> Big(n), e |-> 0]

\* a / d as (a' / d') * 2^e with d' <= a' < 2 * d', for naturals a, d > 0.
Normalise(a, d) ==
    LET la == BitLength(a)
        ld == BitLength(d)
        a1 == IF la < ld THEN ShiftLeft(a, ld - la) ELSE a
        d1 == IF ld < la THEN ShiftLeft(d, la - ld) ELSE d
    IN  IF Geq(a1, d1) THEN [a |-> a1, d |-> d1, e |-> la - ld]
        ELSE [a |-> Dbl(a1), d |-> d1, e |-> la - ld - 1]

\* One step of the long division of r by d, r < d: the next quotient bit.
DivisionStep(s, d) ==
    LET r2 == Dbl(s.r)
    IN  IF Geq(r2, d) THEN [r |-> Sub(r2, d), q |-> Inc(Dbl(s.q))]
        ELSE [r |-> r2, q |-> Dbl(s.q)]

\* Long division of r by d, r < d, until the quotient q has Precision bits.
RECURSIVE QuotientBits(_, _)
QuotientBits(s, d) ==
    IF s.q[1] >= 2 ^ (Precision - 1 - LimbBits) THEN s
    ELSE QuotientBits(DivisionStep(s, d), d)

\* x / y in double precision for doubles x >= 0 and y > 0: the quotient to
\* Precision bits, rounded to nearest, ties to the even mantissa.
FloatDiv(x, y) ==
    IF x.m = <<0, 0>> THEN x
    ELSE LET n == Normalise(x.m, y.m)
             b == QuotientBits([r |-> Sub(n.a, n.d), q |-> Big(1)], n.d)
             r2 == Dbl(b.r)
             guard == Geq(r2, n.d)
             sticky == (IF guard THEN Sub(r2, n.d) ELSE r2) # <<0, 0>>
             up == guard /\ (sticky \/ b.q[2] % 2 = 1)
         IN  [m |-> IF up THEN Inc(b.q) ELSE b.q,
              e |-> x.e - y.e + n.e - (Precision - 1)]

\* Math.round of a double x >= 0 below Limb: the nearest integer, halves up.
MathRound(x) ==
    IF x.e >= 0 THEN Small(x.m) * 2 ^ x.e
    ELSE (Small(ShiftRight(x.m, (-x.e) - 1)) + 1) \div 2

\* ------------------------------------------------------ product and floor
HalfLimbBits == 14
HalfLimb == 2 ^ HalfLimbBits
RestBits == LimbBits - HalfLimbBits

\* The three limbs <<top, high, low>> of top * Limb^2 + high * Limb + low
\* for sums high and low that may exceed a limb.
Carried(top, high, low) ==
    <<top + (high + low \div Limb) \div Limb, (high + low \div Limb) % Limb,
      low % Limb>>

\* The limbs of h1 * 2^41 + h0 * 2^27 + l1 * 2^14 + l0.
Partials(h1, h0, l1, l0) ==
    Carried(h1 \div 2 ^ RestBits,
            l1 \div 2 ^ RestBits + h0 + (h1 % 2 ^ RestBits) * HalfLimb,
            l0 + (l1 % 2 ^ RestBits) * HalfLimb)

\* i * m for a natural i below 2^16 and a mantissa m, in three limbs; each
\* partial product stays below 2^31.
Product(i, m) ==
    Partials(i * (m[1] \div HalfLimb), i * (m[1] % HalfLimb),
             i * (m[2] \div HalfLimb), i * (m[2] % HalfLimb))

\* The bits by which a product in three limbs exceeds Precision bits.
Excess(p) ==
    IF p[1] > 0 THEN LimbLength(p[1]) + 1
    ELSE IF p[2] >= 2 ^ (Precision - LimbBits) THEN 1 ELSE 0

\* q + r / 2^s rounded to nearest, ties to the even q.
NearestEven(q, r, s) ==
    IF s > 0 /\ (2 * r > 2 ^ s \/ (2 * r = 2 ^ s /\ q[2] % 2 = 1))
    THEN Inc(q) ELSE q

\* p / 2^s, rounded, for a product p with s excess bits.
Shortened(p, s) ==
    NearestEven(<<p[1] * 2 ^ (LimbBits - s) + p[2] \div 2 ^ s,
                  (p[2] % 2 ^ s) * 2 ^ (LimbBits - s) + p[3] \div 2 ^ s>>,
                p[3] % 2 ^ s, s)

Rounded(p, s, e) == [m |-> Shortened(p, s), e |-> e + s]
RoundedProduct(p, e) == Rounded(p, Excess(p), e)

\* i * x in double precision for a natural i below 2^16 and a double
\* x >= 0: the exact product rounded to Precision bits, to nearest, ties to
\* the even mantissa.
FloatMulInt(i, x) == RoundedProduct(Product(i, x.m), x.e)

\* Math.floor of a double x >= 0 below Limb.
MathFloor(x) ==
    IF x.e >= 0 THEN Small(x.m) * 2 ^ x.e
    ELSE Small(ShiftRight(x.m, -x.e))

\* Math.round of a / b for naturals a and b > 0: halves round up.
RoundDiv(a, b) == (2 * a + b) \div (2 * b)

ResampleLengthFloor(n, sourceRate, targetRate) == (n * targetRate) \div sourceRate

\* Length of resample(samples, sourceRate, targetRate) for n samples: n when
\* the rates are equal, else Math.round(n / ratio) where ratio is the double
\* sourceRate / targetRate and the division by it is a division of doubles.
ResampleLength(n, sourceRate, targetRate) ==
    IF sourceRate = targetRate THEN n
    ELSE MathRound(FloatDiv(FromInt(n),
                            FloatDiv(FromInt(sourceRate), FromInt(targetRate))))

\* ------------------------------------------------------------ sample values
\* A sample is kept as the exact fraction [n, d] in lowest terms, d > 0. The
\* rounding of a computed value to the precision of the number that holds it
\* (a double, or the float of a Float32Array) is left out: it moves a value
\* by a part in 2^24 at most and no index, length or PCM case depends on it
\* for the inputs drawn here.
RECURSIVE GCD(_, _)
GCD(a, b) == IF b = 0 THEN a ELSE GCD(b, a % b)

Rat(n, d) ==
    LET g == GCD(IF n < 0 THEN -n ELSE n, d)
    IN  [n |-> n \div g, d |-> d \div g]
Whole(k) == [n |-> k, d |-> 1]
RatAdd(x, y) == Rat(x.n * y.d + y.n * x.d, x.d * y.d)
RatSub(x, y) == Rat(x.n * y.d - y.n * x.d, x.d * y.d)
RatMul(x, y) == Rat(x.n * y.n, x.d * y.d)
RatLess(x, y) == x.n * y.d < y.n * x.d
RatMin(x, y) == IF RatLess(y, x) THEN y ELSE x
RatMax(x, y) == IF RatLess(x, y) THEN y ELSE x
Min(a, b) == IF b < a THEN b ELSE a

\* ----------------------------------------------------------------- resample
InterpolateSwapped(lower, upper, fraction) ==
    RatAdd(RatMul(lower, fraction), RatMul(upper, RatSub(Whole(1), fraction)))

\* samples[srcIndexFloor] * (1 - fraction) + samples[srcIndexCeil] * fraction
Interpolate(lower, upper, fraction) ==
    RatAdd(RatMul(lower, RatSub(Whole(1), fraction)), RatMul(upper, fraction))

\* What reading a Float32Array outside 0..length-1 gives the arithmetic:
\* undefined, which makes the sum NaN.
NaN == [n |-> 0, d |-> 0]

\* samples[index], indices counted from 0 as in the code.
Read(samples, index) ==
    IF index \in 0..(Len(samples) - 1) THEN samples[index + 1] ELSE NaN

\* The double sourceSampleRate / targetSampleRate.
Ratio(sourceSampleRate, targetSampleRate) ==
    FloatDiv(FromInt(sourceSampleRate), FromInt(targetSampleRate))

\* Math.floor(i * ratio), the product being a product of doubles.
SrcIndexFloor(i, ratio) == MathFloor(FloatMulInt(i, ratio))

SrcIndexCeilUnclamped(srcIndexFloor, length) == srcIndexFloor + 1

\* Math.min(srcIndexFloor + 1, samples.length - 1)
SrcIndexCeil(srcIndexFloor, length) == Min(srcIndexFloor + 1, length - 1)

\* resample(samples, sourceSampleRate, targetSampleRate). Arrays are indexed
\* from 1 here: output index i of the code is element i + 1. The two indices
\* read are computed in doubles as the code computes them; fraction is
\* srcIndex - srcIndexFloor with srcIndex taken exactly, which is 1 where the
\* double product falls just below a whole number and the code has a
\* fraction just below 1.
resample(samples, sourceSampleRate, targetSampleRate) ==
    IF sourceSampleRate = targetSampleRate THEN samples
    ELSE LET ratio == Ratio(sourceSampleRate, targetSampleRate)
             newLength == ResampleLength(Len(samples), sourceSampleRate,
                                         targetSampleRate)
         IN  [j \in 1..newLength |->
                LET i == j - 1
                    srcIndexFloor == SrcIndexFloor(i, ratio)
                    srcIndexCeil == SrcIndexCeil(srcIndexFloor, Len(samples))
                    fraction == RatSub(Rat(i * sourceSampleRate,
                                           targetSampleRate),
                                       Whole(srcIndexFloor))
                    lower == Read(samples, srcIndexFloor)
                    upper == Read(samples, srcIndexCeil)
                IN  IF NaN \in {lower, upper} THEN NaN
                    ELSE Interpolate(lower, upper, fraction)]

\* ---------------------------------------------------------------- encodeWAV
\* A DataView over an ArrayBuffer is the sequence of its bytes; byte offset o
\* of the code is element o + 1. Values written are below 2^31, where the
\* conversion to an unsigned 32-bit integer changes nothing.
Byte(v, k) == (v \div 256 ^ k) % 256

SetUint8(view, offset, v) == [view EXCEPT ![offset + 1] = v % 256]

SetUint16(view, offset, v) ==
    [i \in DOMAIN view |->
        IF i - offset \in 1..2 THEN Byte(v, i - offset - 1) ELSE view[i]]

SetUint32BigEndian(view, offset, v) ==
    [i \in DOMAIN view |->
        IF i - offset \in 1..4 THEN Byte(v, 4 - (i - offset)) ELSE view[i]]

\* view.setUint32(offset, v, true): four bytes, least significant first.
SetUint32(view, offset, v) ==
    [i \in DOMAIN view |->
        IF i - offset \in 1..4 THEN Byte(v, i - offset - 1) ELSE view[i]]

\* charCodeAt of the characters of the four tags.
CharCodes ==
    [RIFF |-> <<82, 73, 70, 70>>, WAVE |-> <<87, 65, 86, 69>>,
     fmt |-> <<102, 109, 116, 32>>, data |-> <<100, 97, 116, 97>>]

RECURSIVE writeString(_, _, _)
writeString(view, offset, string) ==
    IF string = <<>> THEN view
    ELSE writeString(SetUint8(view, offset, Head(string)), offset + 1,
                     Tail(string))

ClampNone(s) == s

\* Math.max(-1, Math.min(1, s))
Clamp(s) == RatMax(Whole(-1), RatMin(Whole(1), s))

\* s < 0 ? s * 0x8000 : s * 0x7FFF
Scaled(s) ==
    IF RatLess(s, Whole(0)) THEN RatMul(s, Whole(32768))
    ELSE RatMul(s, Whole(32767))

\* The conversion of a number to a 16-bit integer that setInt16 applies: the
\* fraction is dropped (toward zero) and the integer taken modulo 2^16 into
\* -32768..32767.
Truncate(x) == IF x.n >= 0 THEN x.n \div x.d ELSE -((-x.n) \div x.d)
ToInt16(x) == ((Truncate(x) + 32768) % 65536) - 32768

\* The PCM value floatTo16BitPCM stores for one sample.
PCM(sample) == ToInt16(Scaled(Clamp(sample)))

\* floatTo16BitPCM(view, offset, samples): two bytes per sample, the value
\* in two's complement, least significant byte first.
floatTo16BitPCM(view, offset, samples) ==
    [i \in DOMAIN view |->
        IF i - offset \in 1..(2 * Len(samples))
        THEN Byte(PCM(samples[(i - offset - 1) \div 2 + 1]) % 65536,
                  (i - offset - 1) % 2)
        ELSE view[i]]

BufferLengthOfBytes(n) == 44 + n

\* new ArrayBuffer(44 + samples.length * 2)
BufferLength(n) == 44 + n * 2

encodeWAV(samples, sampleRate) ==
    LET buffer == [i \in 1..BufferLength(Len(samples)) |-> 0]
        riff == writeString(buffer, 0, CharCodes.RIFF)
        size == SetUint32(riff, 4, 36 + Len(samples) * 2)
        wave == writeString(size, 8, CharCodes.WAVE)
        fmt == writeString(wave, 12, CharCodes.fmt)
        chunkSize == SetUint32(fmt, 16, 16)
        format == SetUint16(chunkSize, 20, 1)
        channels == SetUint16(format, 22, 1)
        rate == SetUint32(channels, 24, sampleRate)
        byteRate == SetUint32(rate, 28, sampleRate * 2)
        blockAlign == SetUint16(byteRate, 32, 2)
        bits == SetUint16(blockAlign, 34, 16)
        data == writeString(bits, 36, CharCodes.data)
        dataSize == SetUint32(data, 40, Len(samples) * 2)
    IN  floatTo16BitPCM(dataSize, 44, samples)

\* ------------------------------------------ frames built for the audio socket
RECURSIVE Combine(_)
\* The arrays of the buffer joined into one, in the order of the buffer.
Combine(buffers) ==
    IF buffers = <<>> THEN <<>> ELSE Head(buffers) \o Combine(Tail(buffers))

ChunkRateNative(native) == native

\* The sample rate sendBufferedAudio passes to encodeWAV.
ChunkRate(native) == TARGET_SAMPLE_RATE

\* What sendBufferedAudio passes to ws.send for a buffer that is not empty.
WavChunk(buffers, native) ==
    [binary |-> TRUE,
     data |-> encodeWAV(resample(Combine(buffers), native, TARGET_SAMPLE_RATE),
                        ChunkRate(native))]

\* What stopRecording passes to ws.send: JSON.stringify({ type: 'end' }).
EndMessage == [binary |-> FALSE, data |-> "{\"type\":\"end\"}"]

\* ---------------------------------------------------------------- SpecCodec
\* The inputs of the calls: arrays of up to MaxLen samples, the example of
\* four samples and one second of silence; buffers of up to MaxArrays arrays
\* of FrameSize samples.
Arrays(values) == UNION {[1..n -> values] : n \in 0..MaxLen}
ResampleValues == {Whole(-1), Whole(0), Whole(1)}
EncoderValues ==
    {Whole(-2), Whole(-1), Rat(-1, 2), Whole(0), Rat(1, 4), Rat(1, 2),
     Whole(1), Rat(3, 2)}
Example == <<Whole(0), Whole(1), Whole(0), Whole(-1)>>
Silence == [i \in 1..TARGET_SAMPLE_RATE |-> Whole(0)]
Rates == {2, 4, 6, 59}
DeviceRates == {8000, 16000, 44100, 48000}
Buffers == UNION {[1..k -> [1..FrameSize -> ResampleValues]] : k \in 0..MaxArrays}

Pending(fn, samples, rates) ==
    [fn : {fn}, samples : samples, rates : rates, returned : {FALSE},
     result : {<<>>}]

Calls ==
    Pending("resample", Arrays(ResampleValues) \cup {Example}, Rates \X Rates)
    \cup Pending("encodeWAV", Arrays(EncoderValues) \cup {Silence},
                 {<<r>> : r \in DeviceRates})
    \cup Pending("sendBufferedAudio", Buffers, {<<r>> : r \in DeviceRates})
    \cup Pending("stopRecording", {<<>>}, {<<>>})

InitCodec == Constructed /\ clock = NoClock /\ call \in Calls /\ mounted = TRUE

Returns(fn, result) ==
    /\ call.fn = fn /\ ~call.returned
    /\ call' = [call EXCEPT !.returned = TRUE, !.result = result]
    /\ UNCHANGED <<reactState, refs, browser, errors, parent, history, clock,
                   mounted>>

CallResample ==
    Returns("resample", resample(call.samples, call.rates[1], call.rates[2]))

CallEncodeWAV ==
    Returns("encodeWAV", encodeWAV(call.samples, call.rates[1]))

\* sendBufferedAudio on an open socket: nothing for an empty buffer.
CallSendBufferedAudio ==
    Returns("sendBufferedAudio",
            IF call.samples = <<>> THEN <<>>
            ELSE <<WavChunk(call.samples, call.rates[1])>>)

\* stopRecording on an open socket.
CallStopRecording == Returns("stopRecording", <<EndMessage>>)

NextCodec ==
    \/ CallResample
    \/ CallEncodeWAV
    \/ CallSendBufferedAudio
    \/ CallStopRecording

SpecCodec == InitCodec /\ [][NextCodec]_vars

\* ---------------------------------------------------- the timed scenario
\* SpecEndToEnd: one recording of Seconds seconds on a device of native rate
\* NativeRate, with time in sample periods. The script processor delivers an
\* array of BufferSize samples every BufferSize sample periods, the first one
\* a phase later than a full array after ws.onopen created the processor;
\* the flush and duration intervals fire every 1000 ms; Stop is clicked at
\* Seconds seconds, after the interval callbacks due by then.
NativeRate == 48000

\* bufferSize of createScriptProcessor.
BufferSize(native) == IF native >= 44100 THEN 8192 ELSE 4096

\* Samples in the WAV chunk sendBufferedAudio builds from a buffer of
\* arrays: the arrays are joined and resampled to the target rate.
ChunkLength(fr) ==
    ResampleLength(Len(fr.samples) * BufferSize(NativeRate), NativeRate,
                   TARGET_SAMPLE_RATE)

\* Delay of the capture callbacks: multiples of 1024 sample periods, and the
\* two delays that make a callback fall due together with a tick.
Phases == {p * 1024 : p \in 0..7} \cup {5888, 7040}

SampleTime(j) == clock.phase + BufferSize(NativeRate) * j
TickTime(n) == NativeRate * n
StopTime == TickTime(Seconds)
NextCapture == SampleTime(Len(delivered) + 1)
NextFlush == TickTime(clock.flushTicks + 1)
NextDuration == TickTime(duration + 1)
Earliest(times) == CHOOSE t \in times : \A u \in times : t <= u

InitEndToEnd ==
    /\ Constructed
    /\ clock \in [phase : Phases, now : {0}, flushTicks : {0}]
    /\ call = NoCall
    /\ mounted = TRUE

\* Time passes to the next due event when nothing is due now.
Advance ==
    /\ isRecording
    /\ clock.now < StopTime
    /\ NextCapture > clock.now /\ NextFlush > clock.now
    /\ NextDuration > clock.now
    /\ clock' = [clock EXCEPT
                    !.now = Earliest({NextCapture, NextFlush, NextDuration})]
    /\ UNCHANGED <<reactState, refs, browser, errors, parent, history, call,
                   mounted>>

NextEndToEnd ==
    \/ start[1] = "none" /\ StartClick /\ UNCHANGED <<clock, call, mounted>>
    \/ GetUserMediaResolve(1) /\ UNCHANGED <<clock, call, mounted>>
    \/ AudioOpen(1) /\ UNCHANGED <<clock, call, mounted>>
    \/ Advance
    \/ NextCapture = clock.now /\ Deliver(1) /\ UNCHANGED <<clock, call, mounted>>
    \/ /\ NextFlush = clock.now
       /\ TimerFires("flush", 0)
       /\ clock' = [clock EXCEPT !.flushTicks = @ + 1]
       /\ UNCHANGED <<call, mounted>>
    \/ NextDuration = clock.now /\ TimerFires("duration", 0) /\ UNCHANGED <<clock, call, mounted>>
    \/ /\ clock.now = StopTime
       /\ clock.flushTicks = Seconds /\ duration = Seconds
       /\ StopRecording
       /\ UNCHANGED <<clock, call, mounted>>

SpecEndToEnd == InitEndToEnd /\ [][NextEndToEnd]_vars

\* ================================================================== claims
AudioSockets == {k \in Starts : aws[k].rs # "NONE"}
Frames(k) == {sent[k][f] : f \in 1..Len(sent[k])}
SentSamples == UNION {Range(fr.samples) : fr \in UNION {Frames(k) : k \in Starts}}
NotOpen(rs) == rs \in {"CLOSING", "CLOSED"}

\* Everything a stopped session must have given up: not reported recording,
\* no capture callback, no flush or duration timer, the transcript channel
\* closed and the capture device released.
SessionStopped ==
    /\ ~isRecording
    /\ \A k \in Starts : proc[k] # "connected"
    /\ flushTimers = 0
    /\ durationTimers = 0
    /\ \A i \in 1..Len(tws) : NotOpen(tws[i].rs)
    /\ \A k \in Starts : stream[k] # "live"

\* C1: a transport error on the recorder's audio channel (while Connecting,
\* Streaming or Paused) invokes the error callback and stops the whole
\* session, and no new audio connection is opened by it.
C1_AudioErrorIsFatal ==
    [][\A k \in Starts :
          (AudioError(k) /\ k = audioWebSocketRef) =>
              /\ errors'[AudioServerError] = errors[AudioServerError] + 1
              /\ SessionStopped'
              /\ AudioSockets' = AudioSockets]_vars

\* C2: every transcript connection that closed while the recording was in
\* progress has exactly one reconnect to its name: the timeout its onclose
\* scheduled, or the connection that timeout opened.
ReconnectsOf(i) ==
    Cardinality({j \in 1..Len(tws) : tws[j].from = i})
    + (IF i \in reconnectTimers THEN 1 ELSE 0)

C2_ReconnectOncePerClosure ==
    \A i \in 1..Len(tws) : tws[i].closedRec => ReconnectsOf(i) = 1

\* C3: no transcript connection is opened by a reconnect for a recording
\* that is no longer in progress; a stopped session gets no new transcript
\* connection, also not from a reconnect scheduled before the stop.
C3_NoReconnectAfterStop ==
    \A j \in 1..Len(tws) : tws[j].from # 0 => tws[j].live

\* C3 witness: a transcript connection closed while recording, and that
\* session was stopped afterwards.
C3_Witness ==
    \E i \in 1..Len(tws) :
        /\ tws[i].closedRec
        /\ start[tws[i].sess] = "stopped"
        /\ ~isRecording

\* C4: a sample array delivered while the session is paused is in neither
\* the capture buffer nor any chunk sent.
C4_PausedSamplesDiscarded ==
    \A id \in 1..Len(delivered) :
        delivered[id].paused =>
            /\ id \notin Range(audioBufferRef)
            /\ id \notin SentSamples

\* C4 witness: a sample array was delivered during a pause and a chunk with
\* a later sample array has been flushed since.
C4_Witness ==
    \E id \in 1..Len(delivered) :
        /\ delivered[id].paused
        /\ \E later \in SentSamples : later > id

\* C5: the elapsed-seconds counter keeps its value in every step taken while
\* paused and in the resume step, and never decreases.
C5_ElapsedFrozenWhilePaused ==
    [][/\ duration' >= duration
       /\ isPaused => duration' = duration]_vars

\* Position of a step in the latest stopRecording (0 when it did not happen).
StepAt(step) ==
    IF \E n \in 1..Len(stopSteps) : stopSteps[n] = step
    THEN CHOOSE n \in 1..Len(stopSteps) : stopSteps[n] = step
    ELSE 0
Before(a, b) == StepAt(a) # 0 /\ StepAt(b) # 0 /\ StepAt(a) < StepAt(b)

\* C6: a stop request with the audio channel open sends the samples still
\* buffered at the request as one final chunk (nothing is accepted in
\* between), then the end message as the last frame, then closes the audio
\* channel, closes the transcript channel, releases the device and only then
\* reports the session stopped, the capture callback being detached by then;
\* no audio socket ever carries a frame after its end message.
C6_StopOrder ==
    /\ [][(isRecording /\ ~isRecording' /\ CanSend) =>
            /\ sent'[audioWebSocketRef] =
                   sent[audioWebSocketRef]
                   \o Opt(audioBufferRef # <<>>, WavFrame(audioBufferRef))
                   \o <<EndFrame>>
            /\ audioBufferRef # <<>> => Before("finalChunk", "endMessage")'
            /\ Before("endMessage", "closeAudio")'
            /\ Before("closeAudio", "closeTranscript")'
            /\ Before("closeTranscript", "releaseDevice")'
            /\ Before("releaseDevice", "reportStopped")'
            /\ Before("detachCapture", "reportStopped")'
            /\ proc'[processorRef] # "connected"
            /\ NotOpen(aws'[audioWebSocketRef].rs)
            /\ NotOpen(tws'[transcriptWebSocketRef].rs)
            /\ stream'[streamRef] = "stopped"]_vars
    /\ [](\A k \in Starts : \A f \in 1..Len(sent[k]) :
            sent[k][f] = EndFrame => f = Len(sent[k]))

\* C6 witness: a stop request found the channel open and samples buffered;
\* the final chunk and the end message are on the wire.
C6_Witness ==
    /\ ~isRecording
    /\ Before("finalChunk", "endMessage")
    /\ \E k \in Starts : Len(sent[k]) >= 2 /\ sent[k][Len(sent[k])] = EndFrame

\* C7: when the recorder reports not recording after a session was stopped
\* and no new start is under way, nothing of a session is left: every device
\* released, every channel closed, every timer cleared; and a device is never
\* released while a channel of its session is still open.
C7_NoPartialTeardown ==
    /\ (/\ ~isRecording
        /\ \E k \in Starts : start[k] = "stopped"
        /\ \A k \in Starts : start[k] \notin {"pending", "granted"})
       => /\ \A k \in Starts : stream[k] # "live"
          /\ \A k \in AudioSockets : NotOpen(aws[k].rs)
          /\ \A i \in 1..Len(tws) : NotOpen(tws[i].rs)
          /\ flushTimers = 0 /\ durationTimers = 0 /\ levelTimers = 0
    /\ \A k \in Starts : stream[k] = "stopped" =>
          /\ NotOpen(aws[k].rs)
          /\ \A i \in 1..Len(tws) : tws[i].sess = k => NotOpen(tws[i].rs)

\* C8: the recorder starts reporting a recording exactly in the step in which
\* its current audio socket opens, whatever the transcript socket does; a
\* capture callback or flush timer exists only for an audio socket that has
\* opened, and frames are sent only on a socket that has opened.
C8_StreamingOnAudioOpen ==
    /\ [][/\ \A k \in Starts :
               (AudioOpen(k) /\ k = audioWebSocketRef) => isRecording'
          /\ (~isRecording /\ isRecording') =>
               /\ aws[audioWebSocketRef].rs = "CONNECTING"
               /\ aws'[audioWebSocketRef].rs = "OPEN"]_vars
    /\ [](/\ \A k \in Starts : proc[k] = "connected" => aws[k].opened
          /\ flushTimers <= Cardinality({k \in Starts : aws[k].opened})
          /\ \A k \in Starts : sent[k] # <<>> => aws[k].opened)

\* C8 witness: recording with chunks sent while no transcript socket has
\* opened.
C8_Witness ==
    /\ isRecording
    /\ \E k \in Starts : sent[k] # <<>>
    /\ \A i \in 1..Len(tws) : tws[i].rs = "CONNECTING"

\* C9: samples that a flush found buffered while the audio channel was not
\* open are never transmitted by a later flush.
C9_FailedFlushDropped == failedFlush \cap SentSamples = {}

\* C10: the capture buffer is empty right after every flush tick.
C10_BufferEmptyAfterTick ==
    [][TimerFires("flush", 0) => audioBufferRef' = <<>>]_vars

\* The chunks (WAV frames) among the frames sent on audio socket k.
IsChunk(fr) == fr.type = "wav"
Chunks(k) == SelectSeq(sent[k], IsChunk)
IsPrefix(a, b) == Len(a) <= Len(b) /\ SubSeq(b, 1, Len(a)) = a

\* C11: a flush tick that finds the capture buffer empty sends nothing, the
\* final flush of a stop request that finds it empty sends no chunk, and a
\* flush tick during a pause that began before an earlier tick sends nothing.
C11_EmptyFlushSendsNothing ==
    [][/\ (TimerFires("flush", 0) /\ audioBufferRef = <<>>) => sent' = sent
       /\ (isRecording /\ ~isRecording' /\ audioBufferRef = <<>>) =>
              \A k \in Starts : Chunks(k)' = Chunks(k)
       /\ (TimerFires("flush", 0) /\ isPaused /\ tickedInPause) =>
              sent' = sent]_vars

\* The samples of a sequence of frames, in the order sent.
RECURSIVE SamplesOf(_)
SamplesOf(frames) ==
    IF frames = <<>> THEN <<>>
    ELSE Head(frames).samples \o SamplesOf(Tail(frames))

Increasing(seq) == \A a, b \in 1..Len(seq) : a < b => seq[a] < seq[b]

\* C12: frames are appended to what an audio socket has sent, one chunk per
\* flush, and along the chunks of a socket the sample arrays appear in the
\* order the capture callback delivered them (array ids count deliveries),
\* across chunks and within a chunk; the buffer keeps that order too.
C12_ChunksKeepCaptureOrder ==
    /\ [][\A k \in Starts : IsPrefix(sent[k], sent'[k])]_vars
    /\ [](/\ \A k \in Starts : Increasing(SamplesOf(sent[k]))
          /\ Increasing(audioBufferRef)
          /\ \A k \in Starts : \A x \in Range(SamplesOf(sent[k])) :
                \A y \in Range(audioBufferRef) : x < y)

\* C12 witness: an audio socket has carried two chunks.
C12_Witness == \E k \in Starts : Len(Chunks(k)) >= 2

\* C13: the step in which getUserMedia rejects passes the microphone error
\* to onError once and nothing else, leaves the recording state, every
\* socket, stream, context, processor and timer as it was; a denied start
\* request never has a socket, stream, context or processor; and the
\* microphone error differs from the audio server error.
C13_DenialOpensNothing ==
    /\ [][\A k \in Starts : GetUserMediaReject(k) =>
            /\ errors'[MicError] = errors[MicError] + 1
            /\ errors'[AudioServerError] = errors[AudioServerError]
            /\ UNCHANGED <<isRecording, aws, tws, reconnectTimers, stream,
                           ctx, proc, flushTimers, durationTimers,
                           levelTimers>>]_vars
    /\ [](/\ MicError # AudioServerError
          /\ \A k \in Starts : start[k] = "denied" =>
                /\ aws[k] = NoSocket
                /\ stream[k] = "none" /\ ctx[k] = "none" /\ proc[k] = "none"
                /\ \A i \in 1..Len(tws) : tws[i].sess # k)

\* C13 witness: a start request was denied, and reported once.
C13_Witness ==
    /\ \E k \in Starts : start[k] = "denied"
    /\ errors[MicError] = 1
    /\ \A k \in Starts : start[k] \in {"denied", "none"}

\* The audio path: the capture buffer, the pause flag, the flush timer, the
\* elapsed counter and its timer, the audio sockets and what they carried.
AudioPath ==
    <<audioBufferRef, isPausedRef, isPaused, bufferIntervalRef, flushTimers,
      duration, durationIntervalRef, durationTimers, audioWebSocketRef, aws,
      sent, processorRef, proc, delivered>>

\* C14: the open, the close (after an error or not) and the reconnect of a
\* transcript socket leave the audio path unchanged, and a flush tick with
\* the audio socket open and samples buffered sends them as one chunk
\* whatever the transcript sockets are doing.
C14_TranscriptEventsLeaveAudio ==
    [][/\ \A i \in 1..MaxTranscriptSockets :
             (\/ TranscriptOpen(i)
              \/ TranscriptClose(i)
              \/ TimerFires("reconnect", i)) => UNCHANGED AudioPath
       /\ (TimerFires("flush", 0) /\ CanSend /\ audioBufferRef # <<>>) =>
             /\ sent'[audioWebSocketRef] =
                    Append(sent[audioWebSocketRef], WavFrame(audioBufferRef))
             /\ flushTimers' = flushTimers]_vars

\* C14 witness: in the only recording so far the transcript socket closed
\* before the recording began; a chunk has been sent since and the flush
\* timer is still there.
C14_Witness ==
    /\ isRecording
    /\ start[2] = "none"
    /\ Len(tws) = 1 /\ tws[1].rs = "CLOSED"
    /\ Chunks(1) # <<>>
    /\ flushTimers = 1

\* C15: a message received on a transcript socket appends its data payload,
\* as it is, once to the parent's fragments when it is well-formed and of
\* type "transcript", and leaves them as they are otherwise; no message
\* changes a socket, a ref, a timer or the recording state.
C15_CallbackPerTranscriptMessage ==
    [][\A i \in 1..MaxTranscriptSockets : \A m \in WireMessages :
          TranscriptMessage(i, m) =>
             /\ IF m.wellFormed /\ m.type = "transcript"
                THEN liveSegments' = liveSegments \o <<m.data>>
                ELSE liveSegments' = liveSegments
             /\ UNCHANGED <<reactState, refs, browser, errors>>]_vars

\* C15 witness: while recording, three messages arrived on an open
\* transcript socket and one of them was passed on.
C15_Witness ==
    /\ isRecording
    /\ received = 3
    /\ Len(liveSegments) = 1
    /\ \E i \in 1..Len(tws) : tws[i].rs = "OPEN"

\* C16: the fragments handed to the live view are in ascending order of
\* start time.
C16_LiveViewSortedByStart ==
    LiveViewShown =>
        \A a, b \in 1..Len(LiveView) :
            a < b => LiveView[a].start_time <= LiveView[b].start_time

\* C17: while a recording lasts the fragments only grow at the end, by the
\* fragment received and by one entry per transcript message, duplicates
\* included; they are emptied in the step in which a recording starts.
C17_AppendOnlyDuringSession ==
    [][/\ (isRecording /\ isRecording') =>
             /\ IsPrefix(liveSegments, liveSegments')
             /\ Len(liveSegments') <= Len(liveSegments) + 1
       /\ \A i \in 1..MaxTranscriptSockets : \A m \in WireMessages :
             (TranscriptMessage(i, m) /\ m.wellFormed
              /\ m.type = "transcript") =>
                 liveSegments' = liveSegments \o <<m.data>>
       /\ (~isRecording /\ isRecording') => liveSegments' = <<>>]_vars

\* A stop request has run and nothing has been started since.
Closed ==
    /\ ~isRecording
    /\ \E k \in Starts : start[k] = "stopped"
    /\ \A k \in Starts : start[k] \notin {"pending", "granted"}

C19_OneOfEach ==
    /\ Cardinality({k \in Starts : aws[k].rs \in {"CONNECTING", "OPEN"}}) <= 1
    /\ Cardinality({i \in 1..Len(tws) :
                       tws[i].rs \in {"CONNECTING", "OPEN"}}) <= 1
    /\ Cardinality({k \in Starts : proc[k] = "connected"}) <= 1
    /\ flushTimers <= 1
    /\ durationTimers <= 1

\* The timed scenario is over: the recording was stopped.
EndToEndDone == start[1] = "stopped"

\* The chunks the flush ticks sent on audio socket 1: all chunks but the
\* final one of stopRecording, if it sent one.
TickChunks ==
    IF StepAt("finalChunk") # 0
    THEN SubSeq(Chunks(1), 1, Len(Chunks(1)) - 1)
    ELSE Chunks(1)

\* C20 as claimed: after the scenario there are exactly 2 chunks from flush
\* ticks, of 16000 samples each, and the elapsed counter reads 2.
C20_TwoChunksOf16000 ==
    EndToEndDone =>
        /\ Len(TickChunks) = 2
        /\ \A c \in 1..Len(TickChunks) : ChunkLength(TickChunks[c]) = 16000
        /\ duration = 2

\* C20 as the code has it: one chunk per flush tick, each of the whole
\* arrays of 8192 samples delivered since the tick before (4, 5 or 6 of
\* them in a second), resampled to 10923, 13653 or 16384 samples and never
\* to the 16000 of a second of audio; arrays delivered after the last tick
\* go into the final chunk of the stop request, so that every array
\* delivered is sent once; and the elapsed counter reads the seconds.
C20_ChunksOfWholeArrays ==
    EndToEndDone =>
        /\ clock.flushTicks = Seconds
        /\ Len(TickChunks) = Seconds
        /\ \A c \in 1..Len(TickChunks) :
              /\ Len(TickChunks[c].samples) \in 4..6
              /\ ChunkLength(TickChunks[c]) \in {10923, 13653, 16384}
              /\ ChunkLength(TickChunks[c]) # TARGET_SAMPLE_RATE
        /\ Len(Chunks(1)) - Len(TickChunks) <= 1
        /\ SamplesOf(Chunks(1)) = [j \in 1..Len(delivered) |-> j]
        /\ duration = Seconds

\* C20 witness: the scenario ended with a chunk of 4 arrays and a final
\* chunk from the stop request.
C20_Witness ==
    /\ EndToEndDone
    /\ \E c \in 1..Len(TickChunks) : ChunkLength(TickChunks[c]) = 10923
    /\ \E c \in 1..Len(TickChunks) : ChunkLength(TickChunks[c]) = 16384
    /\ duration = Seconds

\* ------------------------------------------------- the module-level functions
Returned(fn) == call.fn = fn /\ call.returned

\* C21: resample returns round(N * Rt / Rs) samples for every input of N
\* samples and all positive rates Rs and Rt, and the input itself, unchanged,
\* when the two rates are equal.
C21_ResampleLength ==
    Returned("resample") =>
        /\ Len(call.result) =
               RoundDiv(Len(call.samples) * call.rates[2], call.rates[1])
        /\ call.rates[1] = call.rates[2] => call.result = call.samples

\* C22: every output value of resample is the linear interpolation
\* samples[floor(srcIndex)] * (1 - frac) + samples[min(floor(srcIndex) + 1,
\* N - 1)] * frac, where srcIndex = i * Rs / Rt for output index i and frac
\* is its fractional part; [0, 1, 0, -1] at rate 4 resampled to rate 2 gives
\* the two values [0, 0].
C22_LinearInterpolation ==
    Returned("resample") =>
        /\ \A i \in 0..(Len(call.result) - 1) :
              LET srcIndex == Rat(i * call.rates[1], call.rates[2])
                  floor == srcIndex.n \div srcIndex.d
                  frac == RatSub(srcIndex, Whole(floor))
                  last == Len(call.samples) - 1
              IN  call.result[i + 1] =
                      RatAdd(RatMul(call.samples[floor + 1],
                                    RatSub(Whole(1), frac)),
                             RatMul(call.samples[Min(floor + 1, last) + 1],
                                    frac))
        /\ (call.samples = Example /\ call.rates = <<4, 2>>)
               => call.result = <<Whole(0), Whole(0)>>

C22_Witness ==
    /\ Returned("resample")
    /\ call.samples = Example /\ call.rates = <<4, 2>>
    /\ call.result = <<Whole(0), Whole(0)>>

\* C23: the encoder output is exactly 44 + 2 * N bytes long for every input
\* of N samples, N = 0 included, and every sample rate; 16000 samples give
\* 32044 bytes.
C23_EncodedLength ==
    Returned("encodeWAV") =>
        /\ Len(call.result) = 44 + 2 * Len(call.samples)
        /\ Len(call.samples) = 16000 => Len(call.result) = 32044

C23_Witness ==
    /\ Returned("encodeWAV")
    /\ Len(call.samples) = 16000
    /\ Len(call.result) = 32044

\* Reading the encoder output back: little-endian fields at a byte offset.
Uint16At(bytes, offset) == bytes[offset + 1] + 256 * bytes[offset + 2]
Uint32At(bytes, offset) ==
    Uint16At(bytes, offset) + 65536 * Uint16At(bytes, offset + 2)
Int16At(bytes, offset) ==
    IF Uint16At(bytes, offset) >= 32768 THEN Uint16At(bytes, offset) - 65536
    ELSE Uint16At(bytes, offset)
TagAt(bytes, offset) == [i \in 1..4 |-> bytes[offset + i]]

\* C24: in every encoder output the header is consistent and little-endian:
\* "RIFF" at bytes 0-3, 36 + dataSize at 4-7, "WAVE" at 8-11, subchunk size
\* 16, audio format 1, channel count 1 at 22-23, the given sample rate at
\* 24-27, byte rate = sample rate * 2, block align 2, bits per sample 16 at
\* 34-35, and the data size at 40-43 equal to 2 * N, the number of payload
\* bytes that follow.
C24_HeaderConsistent ==
    Returned("encodeWAV") =>
        LET bytes == call.result
            dataSize == Uint32At(bytes, 40)
        IN  /\ TagAt(bytes, 0) = <<82, 73, 70, 70>>
            /\ Uint32At(bytes, 4) = 36 + dataSize
            /\ TagAt(bytes, 8) = <<87, 65, 86, 69>>
            /\ Uint32At(bytes, 16) = 16
            /\ Uint16At(bytes, 20) = 1
            /\ Uint16At(bytes, 22) = 1
            /\ Uint32At(bytes, 24) = call.rates[1]
            /\ Uint32At(bytes, 28) = call.rates[1] * 2
            /\ Uint16At(bytes, 32) = 2
            /\ Uint16At(bytes, 34) = 16
            /\ dataSize = 2 * Len(call.samples)
            /\ Len(bytes) - 44 = dataSize

C24_Witness ==
    /\ Returned("encodeWAV")
    /\ Len(call.samples) = 2 /\ call.rates = <<44100>>
    /\ Uint32At(call.result, 24) = 44100 /\ Uint32At(call.result, 28) = 88200
    /\ Uint32At(call.result, 40) = 4

\* The PCM value encoded for the i-th sample of the call, read back.
Encoded(i) == Int16At(call.result, 44 + 2 * (i - 1))

\* C25: every encoded PCM value lies in -32768..32767 and input out of range
\* saturates: a sample >= 1 encodes as 32767, a sample <= -1 as -32768, and
\* 0 as 0.
C25_Saturates ==
    Returned("encodeWAV") =>
        \A i \in 1..Len(call.samples) :
            LET s == call.samples[i]
            IN  /\ Encoded(i) \in -32768..32767
                /\ ~RatLess(s, Whole(1)) => Encoded(i) = 32767
                /\ ~RatLess(Whole(-1), s) => Encoded(i) = -32768
                /\ s = Whole(0) => Encoded(i) = 0

C25_Witness ==
    /\ Returned("encodeWAV")
    /\ call.samples = <<Rat(3, 2), Whole(-2), Whole(0)>>
    /\ Encoded(1) = 32767 /\ Encoded(2) = -32768 /\ Encoded(3) = 0

\* C26: for every sample s in -1..1 the encoded PCM value is s * 32768 for
\* negative s and s * 32767 for non-negative s, rounded to the nearest
\* integer: it is at most one half away from the scaled value.
C26_RoundedToNearest ==
    Returned("encodeWAV") =>
        \A i \in 1..Len(call.samples) :
            LET s == call.samples[i]
                x == IF s.n < 0 THEN RatMul(s, Whole(32768))
                     ELSE RatMul(s, Whole(32767))
                twice == 2 * (Encoded(i) * x.d - x.n)
            IN  (~RatLess(s, Whole(-1)) /\ ~RatLess(Whole(1), s))
                    => (twice <= x.d /\ -twice <= x.d)

\* C27: every binary frame sent on the audio socket is one complete chunk
\* whose header declares the sample rate 16000 whatever the native rate of
\* the device, and whose payload holds round(N * 16000 / native) samples for
\* the N native samples of the flushed buffer; the only frame that is not
\* binary is the end-of-stream message.
C27_FramesAreChunksAt16000 ==
    (call.returned /\ call.fn \in {"sendBufferedAudio", "stopRecording"}) =>
        \A i \in 1..Len(call.result) :
            LET frame == call.result[i]
                drained == Len(call.samples) * FrameSize
            IN  IF frame.binary
                THEN /\ call.fn = "sendBufferedAudio"
                     /\ TagAt(frame.data, 0) = <<82, 73, 70, 70>>
                     /\ Uint32At(frame.data, 24) = 16000
                     /\ Len(frame.data) = 44 + Uint32At(frame.data, 40)
                     /\ Uint32At(frame.data, 40) =
                            2 * RoundDiv(drained * 16000, call.rates[1])
                ELSE /\ call.fn = "stopRecording"
                     /\ frame.data = "{\"type\":\"end\"}"

C27_Witness ==
    /\ Returned("sendBufferedAudio")
    /\ call.rates = <<48000>> /\ Len(call.samples) = 2
    /\ call.result # <<>>
    /\ call.result[1].binary
    /\ Uint32At(call.result[1].data, 24) = 16000
    /\ Uint32At(call.result[1].data, 40) = 2

\* ------------------------------------------------------ sessions in a row
\* A start request whose device access succeeded is waiting for its audio
\* socket to open.
Connecting ==
    /\ ~isRecording
    /\ \E k \in Starts : start[k] = "granted" /\ aws[k].rs = "CONNECTING"

\* C28: a session does not stay in Connecting for ever: after a start
\* request whose device access succeeded it eventually reaches Streaming, or
\* reports the fatal error and has released its resources, even when the
\* audio connection never opens and never fails.
C28_ConnectingEnds ==
    Connecting ~> (isRecording \/ (errors[AudioServerError] > 0 /\ SessionStopped))

\* C29: while the session is Streaming (recording and not shown as paused)
\* the pause flag read by the capture callback is clear and every sample
\* array the callback delivers is appended to the buffer, also in a
\* recording started after a stop issued while Paused.
C29_StreamingSamplesAppended ==
    /\ (isRecording /\ ~isPaused) => ~isPausedRef
    /\ \A id \in 1..Len(delivered) :
          (delivered[id].rec /\ ~delivered[id].paused) => delivered[id].kept

\* C30: every recording starts its elapsed-seconds counter at 0: the counter
\* reads 0 at the moment a recording enters Streaming, also after a stop
\* followed by a new start on the same recorder.
C30_CounterStartsAtZero ==
    [][(~isRecording /\ isRecording') => duration' = 0]_vars

\* ------------------------------------------------------------------ unmount
\* C31: when the recorder component is unmounted while a recording is in
\* progress, the recording is stopped as by a stop request: the timers are
\* cleared, both connections are closed and the capture device is released.
C31_UnmountStops ==
    [][(mounted /\ ~mounted' /\ isRecording) =>
          /\ SessionStopped'
          /\ \A k \in Starts : aws'[k].rs # "OPEN"]_vars

\* ------------------------------------------------------------ exactly once
\* The sample arrays the capture callback put into the buffer.
Kept == {id \in 1..Len(delivered) : delivered[id].kept}

\* The chunks holding sample array id: socket and position among its frames.
ChunksWith(id) ==
    UNION {{<<k, f>> : f \in {g \in 1..Len(sent[k]) :
                                 /\ IsChunk(sent[k][g])
                                 /\ id \in Range(sent[k][g].samples)}} :
           k \in Starts}

TimesIn(seq, id) == Cardinality({p \in 1..Len(seq) : seq[p] = id})

\* C32: every sample array accepted into the capture buffer is transmitted
\* in exactly one chunk when the audio channel is open at every flush that
\* finds it buffered: it is in at most one chunk and once in that chunk, it
\* has left the buffer when it is in a chunk (never sent again), and once it
\* has left the buffer it is in a chunk (never lost), whichever flush took
\* it: a periodic tick, a tick during a later pause or the final flush of a
\* stop request. failedFlush holds the arrays that a flush found buffered
\* while the channel was not open.
C32_TransmittedExactlyOnce ==
    \A id \in Kept :
        LET chunks == ChunksWith(id)
        IN  /\ Cardinality(chunks) <= 1
            /\ \A c \in chunks : TimesIn(sent[c[1]][c[2]].samples, id) = 1
            /\ id \in Range(audioBufferRef) => chunks = {}
            /\ (id \notin Range(audioBufferRef) /\ id \notin failedFlush) =>
                   chunks # {}

\* C32 witness: a recording whose channel was open at every flush has ended;
\* one accepted array was taken by a flush tick during a later pause, another
\* by the final flush of the stop request, and each is in exactly one chunk.
C32_Witness ==
    /\ ~isRecording
    /\ failedFlush = {}
    /\ \E a, b \in Kept :
          /\ <<a, "pausedTick">> \in drainedBy
          /\ <<b, "stop">> \in drainedBy
          /\ Cardinality(ChunksWith(a)) = 1
          /\ Cardinality(ChunksWith(b)) = 1
          /\ ChunksWith(a) # ChunksWith(b)

\* ------------------------------------------------------ indices of resample
\* C33: for a non-empty input and positive rates Rs # Rt, downsampling or
\* upsampling, both source indices resample reads for output index i, the
\* floor of i * Rs / Rt and the clamped next index, lie within 0..N-1 for
\* every i below the length of the output; for an empty input the output is
\* empty, so nothing is read.
C33_ReadsWithinInput ==
    (Returned("resample") /\ call.rates[1] # call.rates[2]) =>
        LET N == Len(call.samples)
            ratio == Ratio(call.rates[1], call.rates[2])
        IN  /\ \A i \in 0..(Len(call.result) - 1) :
                  LET floor == SrcIndexFloor(i, ratio)
                  IN  /\ floor \in 0..(N - 1)
                      /\ SrcIndexCeil(floor, N) \in 0..(N - 1)
            /\ N = 0 => call.result = <<>>

\* C33 witness: three samples resampled from rate 2 to rate 59; the last
\* output index reads the last sample twice, the next index being clamped.
C33_Witness ==
    /\ Returned("resample")
    /\ call.rates = <<2, 59>>
    /\ Len(call.samples) = 3
    /\ LET last == Len(call.result) - 1
           floor == SrcIndexFloor(last, Ratio(2, 59))
       IN  /\ last > 59
           /\ floor = 2
           /\ SrcIndexCeil(floor, 3) = 2
           /\ call.result[last + 1] = call.samples[3]

====
